---- MODULE Spec2Model ----
(***************************************************************************)
(* Model of src/services/planner_model.py: the deterministic post-         *)
(* processing pipeline of the weekly planner (JSON candidate extraction,   *)
(* plan normalisation, conflict detection, conflict resolution by          *)
(* shifting) and the request/response envelope of generate_plan and of     *)
(* the __main__ block.                                                     *)
(*                                                                         *)
(* Representation.  A Python str is a sequence of one-character strings.   *)
(* A JSON value is a record tagged by k: "str" (field s), "num" (field n), *)
(* "null", and "absent" for a key the dict does not hold.  A datetime is a *)
(* number of minutes counted from 00:00 of ref_week_start.                 *)
(***************************************************************************)
EXTENDS Integers, Sequences, FiniteSets, TLC

(* ------------------------------------------------------------------ *)
(* Bounds of the model                                                 *)
(* ------------------------------------------------------------------ *)
MaxItems == 2
MaxBusy == 2
MaxTokens == 3

(* ------------------------------------------------------------------ *)
(* str helpers                                                         *)
(* ------------------------------------------------------------------ *)
Digits == <<"0", "1", "2", "3", "4", "5", "6", "7", "8", "9">>

Uppers == <<"A", "B", "C", "D", "E", "F", "G", "H", "I", "J", "K", "L", "M",
            "N", "O", "P", "Q", "R", "S", "T", "U", "V", "W", "X", "Y", "Z">>

Lowers == <<"a", "b", "c", "d", "e", "f", "g", "h", "i", "j", "k", "l", "m",
            "n", "o", "p", "q", "r", "s", "t", "u", "v", "w", "x", "y", "z">>

IsDigit(c) == \E i \in 1..10 : Digits[i] = c

DigitVal(c) == (CHOOSE i \in 1..10 : Digits[i] = c) - 1

IsAlpha(c) == \E i \in 1..26 : Uppers[i] = c \/ Lowers[i] = c

IsSpace(c) == c = " " \/ c = "\n"

LowerChar(c) ==
    IF \E i \in 1..26 : Uppers[i] = c
    THEN Lowers[CHOOSE i \in 1..26 : Uppers[i] = c]
    ELSE c

\* str.lower()
Lower(s) == [i \in 1..Len(s) |-> LowerChar(s[i])]

\* str.strip()
Strip(s) ==
    LET keep == {i \in 1..Len(s) : ~IsSpace(s[i])}
    IN  IF keep = {} THEN <<>>
        ELSE LET lo == CHOOSE i \in keep : \A j \in keep : i <= j
                 hi == CHOOSE i \in keep : \A j \in keep : i >= j
             IN  SubSeq(s, lo, hi)

\* s[i:].startswith(sub), i a 1-based position
StartsAt(s, i, sub) ==
    /\ i >= 1
    /\ i + Len(sub) - 1 <= Len(s)
    /\ SubSeq(s, i, i + Len(sub) - 1) = sub

\* sub in s
Contains(s, sub) == \E i \in 1..(Len(s) + 1) : StartsAt(s, i, sub)

\* the value of a non-empty str of decimal digits
RECURSIVE DigitsVal(_)
DigitsVal(s) ==
    IF Len(s) = 0 THEN 0
    ELSE 10 * DigitsVal(SubSeq(s, 1, Len(s) - 1)) + DigitVal(s[Len(s)])

AllDigits(s) == Len(s) >= 1 /\ \A i \in 1..Len(s) : IsDigit(s[i])

\* the decimal digits of n >= 0
RECURSIVE NatStr(_)
NatStr(n) ==
    IF n < 10 THEN <<Digits[n + 1]>>
    ELSE Append(NatStr(n \div 10), Digits[(n % 10) + 1])

\* f"{n:02d}" for n >= 0
Fmt02(n) == IF n < 10 THEN <<"0">> \o NatStr(n) ELSE NatStr(n)

hhmm(hour, minute) == Fmt02(hour) \o <<":">> \o Fmt02(minute)

(* ------------------------------------------------------------------ *)
(* JSON values                                                         *)
(* ------------------------------------------------------------------ *)
JStr(s) == [k |-> "str", s |-> s]
JNum(n) == [k |-> "num", n |-> n]
JNull == [k |-> "null"]
JAbsent == [k |-> "absent"]

IsStr(v) == v.k = "str"
IsNum(v) == v.k = "num"

(* ------------------------------------------------------------------ *)
(* TIME_WINDOWS, WEEK_DAYS                                             *)
(* ------------------------------------------------------------------ *)
W_early_morning == <<"e","a","r","l","y"," ","m","o","r","n","i","n","g">>
W_morning == <<"m","o","r","n","i","n","g">>
W_late_morning == <<"l","a","t","e"," ","m","o","r","n","i","n","g">>
W_midday == <<"m","i","d","d","a","y">>
W_afternoon == <<"a","f","t","e","r","n","o","o","n">>
W_evening == <<"e","v","e","n","i","n","g">>
W_night == <<"n","i","g","h","t">>
W_neutral == <<"n","e","u","t","r","a","l">>
W_weekend == <<"w","e","e","k","e","n","d">>
W_after_work == <<"a","f","t","e","r"," ","w","o","r","k">>
W_post_work == <<"p","o","s","t","-","w","o","r","k">>

\* the dict in definition order: <<key, <<start, end>>>>
TIME_WINDOWS ==
    << <<W_early_morning, <<5, 7>>>>,
       <<W_morning, <<7, 9>>>>,
       <<W_late_morning, <<9, 11>>>>,
       <<W_midday, <<11, 13>>>>,
       <<W_afternoon, <<13, 17>>>>,
       <<W_evening, <<18, 21>>>>,
       <<W_night, <<21, 23>>>> >>

D_Mon == <<"M","o","n">>
D_Tue == <<"T","u","e">>
D_Wed == <<"W","e","d">>
D_Thu == <<"T","h","u">>
D_Fri == <<"F","r","i">>
D_Sat == <<"S","a","t">>
D_Sun == <<"S","u","n">>

WEEK_DAYS == <<D_Mon, D_Tue, D_Wed, D_Thu, D_Fri, D_Sat, D_Sun>>

FullDayNames ==
    << <<"m","o","n","d","a","y">>,
       <<"t","u","e","s","d","a","y">>,
       <<"w","e","d","n","e","s","d","a","y">>,
       <<"t","h","u","r","s","d","a","y">>,
       <<"f","r","i","d","a","y">>,
       <<"s","a","t","u","r","d","a","y">>,
       <<"s","u","n","d","a","y">> >>

IsWeekDay(s) == \E i \in 1..7 : WEEK_DAYS[i] = s

\* WEEK_DAYS.index(s), 0-based, for s in WEEK_DAYS
DayIndex(s) == (CHOOSE i \in 1..7 : WEEK_DAYS[i] = s) - 1

interpret_vague_time(token0) ==
    LET token == Strip(Lower(token0))
        exact == {i \in 1..7 : TIME_WINDOWS[i][1] = token}
        part == {i \in 1..7 : Contains(token, TIME_WINDOWS[i][1])}
    IN  IF exact # {} THEN TIME_WINDOWS[CHOOSE i \in exact : TRUE][2]
        ELSE IF Contains(token, W_weekend) THEN <<7, 9>>
        ELSE IF Contains(token, W_after_work) \/ Contains(token, W_post_work)
             THEN <<17, 19>>
        ELSE IF part # {}
             THEN TIME_WINDOWS[CHOOSE i \in part : \A j \in part : i <= j][2]
        ELSE <<7, 9>>

choose_hour_from_window(window, chronotype) ==
    LET mid == (window[1] + window[2]) \div 2
    IN  IF chronotype = "morning" THEN window[1] ELSE mid

(* ------------------------------------------------------------------ *)
(* normalize_plan                                                      *)
(* ------------------------------------------------------------------ *)
\* Faulty variant of DayConvIndex: the dict holds the full names only.
DayConvIndexFullNamesOnly(key) ==
    LET hit == {i \in 1..7 : FullDayNames[i] = key}
    IN  IF hit = {} THEN 0 ELSE CHOOSE i \in hit : TRUE

\* day_conv: the lower-cased WEEK_DAYS tokens and the full names, each
\* mapped to its token; 0 when the key is not in the dict
DayConvIndex(key) ==
    LET hit == {i \in 1..7 : Lower(WEEK_DAYS[i]) = key \/ FullDayNames[i] = key}
    IN  IF hit = {} THEN 0 ELSE CHOOSE i \in hit : TRUE

\* re.search(r"[a-zA-Z]", s)
HasLetter(s) == \E i \in 1..Len(s) : IsAlpha(s[i])

\* item.get(key, default) for a key that is absent
GetOr(v, default) == IF v.k = "absent" THEN default ELSE v

\* one iteration of the loop of normalize_plan; exc: the iteration raises
\* (None.strip(), re.search on a non-str)
NormalizeItem(item, chronotype) ==
    LET i1 == IF item.duration_minutes.k \in {"absent", "null"}
              THEN [item EXCEPT !.duration_minutes = JNum(60)]
              ELSE item
        dv == GetOr(i1.day, JStr(<<>>))
        tv == GetOr(i1.start_time, JStr(<<>>))
    IN  IF ~IsStr(dv) THEN [exc |-> TRUE, item |-> i1]
        ELSE
          LET d == Strip(dv.s)
              ci == DayConvIndex(Lower(d))
              i2 == IF ci # 0 THEN [i1 EXCEPT !.day = JStr(WEEK_DAYS[ci])] ELSE i1
          IN  IF ~IsStr(tv) THEN [exc |-> TRUE, item |-> i2]
              ELSE IF HasLetter(tv.s)
                   THEN LET w == interpret_vague_time(tv.s)
                            hour == choose_hour_from_window(w, chronotype)
                        IN  [exc |-> FALSE,
                             item |-> [i2 EXCEPT !.start_time = JStr(hhmm(hour, 0))]]
                   ELSE [exc |-> FALSE, item |-> i2]

\* normalize_plan over a list of dicts: exc when some iteration raises,
\* otherwise the list of the normalised items, in order
normalize_plan(plan_items, chronotype) ==
    LET r == [i \in 1..Len(plan_items) |-> NormalizeItem(plan_items[i], chronotype)]
    IN  IF \E i \in 1..Len(plan_items) : r[i].exc
        THEN [exc |-> TRUE, items |-> <<>>]
        ELSE [exc |-> FALSE, items |-> [i \in 1..Len(plan_items) |-> r[i].item]]

(* ------------------------------------------------------------------ *)
(* time parsing                                                        *)
(* ------------------------------------------------------------------ *)
\* position of the first ":" of s, 0 when there is none
ColonPos(s) ==
    LET at == {i \in 1..Len(s) : s[i] = ":"}
    IN  IF at = {} THEN 0 ELSE CHOOSE i \in at : \A j \in at : i <= j

\* datetime.strptime(s, "%H:%M"): one or two digits (0..23), ":", one or
\* two digits (0..59), nothing else; the minute of the day, -1 for ValueError
Strptime(s) ==
    LET c == ColonPos(s)
        hs == SubSeq(s, 1, c - 1)
        ms == SubSeq(s, c + 1, Len(s))
    IN  IF /\ c # 0
           /\ AllDigits(hs) /\ Len(hs) <= 2 /\ DigitsVal(hs) <= 23
           /\ AllDigits(ms) /\ Len(ms) <= 2 /\ DigitsVal(ms) <= 59
        THEN 60 * DigitsVal(hs) + DigitsVal(ms)
        ELSE -1

\* int(s.split(":")[0]): surrounding whitespace, an optional sign, decimal
\* digits; ok is false for ValueError
IntOfPrefix(s) ==
    LET c == ColonPos(s)
        pre == Strip(IF c = 0 THEN s ELSE SubSeq(s, 1, c - 1))
        signed == Len(pre) >= 1 /\ (pre[1] = "-" \/ pre[1] = "+")
        body == IF signed THEN SubSeq(pre, 2, Len(pre)) ELSE pre
    IN  IF AllDigits(body)
        THEN [ok |-> TRUE,
              n |-> IF signed /\ pre[1] = "-" THEN 0 - DigitsVal(body) ELSE DigitsVal(body)]
        ELSE [ok |-> FALSE, n |-> 0]

(* ------------------------------------------------------------------ *)
(* busy intervals                                                      *)
(* A busy string is [slash, a, b]: whether it holds a "/", and the two *)
(* halves around the first "/".  A half is [ok, t, tz]: whether        *)
(* datetime.fromisoformat accepts it, the wall-clock time it states    *)
(* (minutes from 00:00 of ref_week_start) and its offset suffix.       *)
(* ------------------------------------------------------------------ *)
\* fromisoformat(x.replace("Z", "+00:00")) followed by replace(tzinfo=None)
NaiveOf(half) == half.t

BusyParses(bs) == bs.slash /\ bs.a.ok /\ bs.b.ok

\* Faulty variant of Overlaps: spans that touch at an endpoint count.
OverlapsClosed(a, b, c, d) == ~(b < c \/ a > d)

\* not (plan_end <= busy_start or plan_dt >= busy_end)
Overlaps(a, b, c, d) == ~(b <= c \/ a >= d)

MinutesPerDay == 1440

(* ------------------------------------------------------------------ *)
(* plan_conflicts                                                      *)
(* ------------------------------------------------------------------ *)
\* the item passes the day test and the strptime try block
ItemTimed(p) ==
    /\ IsStr(p.day) /\ IsWeekDay(p.day.s)
    /\ LET st == GetOr(p.start_time, JStr(<<"0","9",":","0","0">>))
       IN  IsStr(st) /\ Strptime(st.s) # -1

plan_dt(p) ==
    LET st == GetOr(p.start_time, JStr(<<"0","9",":","0","0">>))
    IN  DayIndex(p.day.s) * MinutesPerDay + Strptime(st.s)

\* p.get("duration_minutes", 60)
DurationOf(p) == GetOr(p.duration_minutes, JNum(60))

\* the entries one item contributes, in busy-interval order
ItemConflicts(plan_items, i, busy_intervals) ==
    LET p == plan_items[i]
        a == plan_dt(p)
        b == a + DurationOf(p).n
        hit == SelectSeq([j \in 1..Len(busy_intervals) |-> j],
                 LAMBDA j : /\ BusyParses(busy_intervals[j])
                            /\ Overlaps(a, b, NaiveOf(busy_intervals[j].a),
                                              NaiveOf(busy_intervals[j].b)))
    IN  [n \in 1..Len(hit) |->
            [p |-> i,
             start |-> NaiveOf(busy_intervals[hit[n]].a),
             end |-> NaiveOf(busy_intervals[hit[n]].b)]]

RECURSIVE ConflictsFrom(_, _, _)
ConflictsFrom(plan_items, i, busy_intervals) ==
    IF i > Len(plan_items) THEN <<>>
    ELSE (IF ItemTimed(plan_items[i])
          THEN ItemConflicts(plan_items, i, busy_intervals)
          ELSE <<>>) \o ConflictsFrom(plan_items, i + 1, busy_intervals)

\* exc: timedelta(minutes=...) raises TypeError for an item that reaches it;
\* an entry names its item by position (the tuple holds the dict itself)
plan_conflicts(plan_items, busy_intervals) ==
    IF \E i \in 1..Len(plan_items) :
          ItemTimed(plan_items[i]) /\ ~IsNum(DurationOf(plan_items[i]))
    THEN [exc |-> TRUE, out |-> <<>>]
    ELSE [exc |-> FALSE, out |-> ConflictsFrom(plan_items, 1, busy_intervals)]

(* ------------------------------------------------------------------ *)
(* resolve_conflict_by_shifting                                        *)
(* ------------------------------------------------------------------ *)
\* Faulty variant of Deltas: the chronotype is ignored.
DeltasNeutralOnly(chronotype) == <<1, -1, 2, -2, 3, -3, 4, -4, 5, -5>>

Deltas(chronotype) ==
    IF chronotype = "morning" THEN <<-1, -2, -3, 1, 2, 3, 4, -4, 5, -5>>
    ELSE IF chronotype = "evening" THEN <<1, 2, 3, -1, -2, -3, 4, -4, 5, -5>>
    ELSE <<1, -1, 2, -2, 3, -3, 4, -4, 5, -5>>

\* the try block around int(...): 8 on any exception
CurrentHour(item) ==
    LET st == GetOr(item.start_time, JStr(<<"0","8",":","0","0">>))
    IN  IF IsStr(st) /\ IntOfPrefix(st.s).ok THEN IntOfPrefix(st.s).n ELSE 8

\* Faulty variant of InRange: hour 23 is accepted.
InRangeTo23(candidate_hour) == 6 <= candidate_hour /\ candidate_hour <= 23

InRange(candidate_hour) == 6 <= candidate_hour /\ candidate_hour <= 22

\* Faulty variant of CandidateConflict: the candidate is tested against the
\* first busy interval only.
CandidateConflictFirstOnly(candidate_hour, dur_minutes, busy_intervals, ref_date) ==
    LET candidate_start == ref_date * MinutesPerDay + candidate_hour * 60
        candidate_end == candidate_start + dur_minutes
    IN  /\ Len(busy_intervals) >= 1
        /\ BusyParses(busy_intervals[1])
        /\ ~(candidate_end <= NaiveOf(busy_intervals[1].a)
              \/ candidate_start >= NaiveOf(busy_intervals[1].b))

\* the inner loop over busy_intervals: conflict is set
CandidateConflict(candidate_hour, dur_minutes, busy_intervals, ref_date) ==
    LET candidate_start == ref_date * MinutesPerDay + candidate_hour * 60
        candidate_end == candidate_start + dur_minutes
    IN  \E j \in 1..Len(busy_intervals) :
          /\ BusyParses(busy_intervals[j])
          /\ Overlaps(candidate_start, candidate_end,
                      NaiveOf(busy_intervals[j].a), NaiveOf(busy_intervals[j].b))

\* Faulty variant of resolve_conflict_by_shifting: start_time is rewritten
\* to the current hour before the search, and stays so when the search fails.
ResolveRewritingFirst(item, busy_intervals, ref_date, chronotype) ==
    LET dur == DurationOf(item)
        current_hour == CurrentHour(item)
        deltas == Deltas(chronotype)
        inr == {n \in 1..Len(deltas) : InRange(current_hour + deltas[n])}
        free == {n \in inr : ~CandidateConflict(current_hour + deltas[n], dur.n,
                                                busy_intervals, ref_date)}
        rewritten == [item EXCEPT !.start_time = JStr(hhmm(current_hour, 0))]
    IN  IF inr # {} /\ ~IsNum(dur) THEN [exc |-> TRUE, ok |-> FALSE, item |-> rewritten]
        ELSE IF free = {} THEN [exc |-> FALSE, ok |-> FALSE, item |-> rewritten]
        ELSE LET n == CHOOSE m \in free : \A q \in free : m <= q
             IN  [exc |-> FALSE, ok |-> TRUE,
                  item |-> [item EXCEPT
                              !.start_time = JStr(hhmm(current_hour + deltas[n], 0))]]

\* ref_date is the number of days from ref_week_start to the target date.
\* exc: timedelta(minutes=dur_minutes) raises at the first candidate in range.
resolve_conflict_by_shifting(item, busy_intervals, ref_date, chronotype) ==
    LET dur == DurationOf(item)
        current_hour == CurrentHour(item)
        deltas == Deltas(chronotype)
        inr == {n \in 1..Len(deltas) : InRange(current_hour + deltas[n])}
        free == {n \in inr : ~CandidateConflict(current_hour + deltas[n], dur.n,
                                                busy_intervals, ref_date)}
    IN  IF inr # {} /\ ~IsNum(dur) THEN [exc |-> TRUE, ok |-> FALSE, item |-> item]
        ELSE IF free = {} THEN [exc |-> FALSE, ok |-> FALSE, item |-> item]
        ELSE LET n == CHOOSE m \in free : \A q \in free : m <= q
             IN  [exc |-> FALSE, ok |-> TRUE,
                  item |-> [item EXCEPT
                              !.start_time = JStr(hhmm(current_hour + deltas[n], 0))]]

(* ------------------------------------------------------------------ *)
(* extract_largest_json                                                *)
(* ------------------------------------------------------------------ *)
\* the backquote character is written "~" (a TLA+ string cannot hold it)
BQ == "~"
F_fence == <<BQ, BQ, BQ>>
F_fence_json == <<BQ, BQ, BQ, "j", "s", "o", "n">>
F_xml_open == <<"<","?","x","m","l">>
F_xml_close == <<"?",">">>

\* re.sub(pat, "", s) for a literal pat: leftmost matches, left to right;
\* ci: flags=re.IGNORECASE
RECURSIVE RemoveLiteral(_, _, _)
RemoveLiteral(s, pat, ci) ==
    IF Len(s) < Len(pat) THEN s
    ELSE IF (IF ci THEN Lower(SubSeq(s, 1, Len(pat))) = Lower(pat)
                   ELSE SubSeq(s, 1, Len(pat)) = pat)
         THEN RemoveLiteral(SubSeq(s, Len(pat) + 1, Len(s)), pat, ci)
         ELSE <<s[1]>> \o RemoveLiteral(Tail(s), pat, ci)

\* re.sub(r"<\?xml.*?\?>", "", s, flags=re.DOTALL): from each "<?xml" to the
\* nearest "?>" after it
RECURSIVE RemoveXml(_)
RemoveXml(s) ==
    IF Len(s) = 0 THEN s
    ELSE LET ends == {j \in 6..Len(s) : StartsAt(s, j, F_xml_close)}
         IN  IF StartsAt(s, 1, F_xml_open) /\ ends # {}
             THEN LET j == CHOOSE x \in ends : \A y \in ends : x <= y
                  IN  RemoveXml(SubSeq(s, j + 2, Len(s)))
             ELSE <<s[1]>> \o RemoveXml(Tail(s))

\* the text the scan runs on
Preprocess(text) ==
    RemoveXml(RemoveLiteral(RemoveLiteral(Strip(text), F_fence_json, TRUE),
                            F_fence, FALSE))

\* Faulty variant of ScanFrom: the first "}" ends the candidate, whatever the
\* depth.
RECURSIVE ScanFromFirstClose(_, _, _)
ScanFromFirstClose(s, j, count) ==
    IF j > Len(s) THEN 0
    ELSE IF s[j] = "}" THEN j
    ELSE ScanFromFirstClose(s, j + 1, count)

\* the inner loop, for j in range(idx, len(s)), entered at position j with
\* the depth count: the position of the "}" that brings count to 0, 0 when
\* the loop ends without one
RECURSIVE ScanFrom(_, _, _)
ScanFrom(s, j, count) ==
    IF j > Len(s) THEN 0
    ELSE IF s[j] = "{" THEN ScanFrom(s, j + 1, count + 1)
    ELSE IF s[j] = "}"
         THEN (IF count - 1 = 0 THEN j ELSE ScanFrom(s, j + 1, count - 1))
    ELSE ScanFrom(s, j + 1, count)

\* the outer loop over start_indices from position idx on; best = <<>>
\* stands for None with max_len = 0
RECURSIVE BestFrom(_, _, _)
BestFrom(s, idx, best) ==
    IF idx > Len(s) THEN best
    ELSE IF s[idx] # "{" THEN BestFrom(s, idx + 1, best)
    ELSE LET j == ScanFrom(s, idx, 0)
         IN  IF j # 0 /\ (j - idx + 1) > Len(best)
             THEN BestFrom(s, idx + 1, SubSeq(s, idx, j))
             ELSE BestFrom(s, idx + 1, best)

extract_largest_json(text) ==
    IF Len(text) = 0 THEN JNull
    ELSE LET best == BestFrom(Preprocess(text), 1, <<>>)
         IN  IF best = <<>> THEN JNull ELSE JStr(best)

(* ------------------------------------------------------------------ *)
(* State                                                               *)
(* ------------------------------------------------------------------ *)
VARIABLES
    pc,               \* position of the run
    profile,          \* generate_plan: profile
    busy_intervals,   \* generate_plan: busy_intervals
    planner_out,      \* generate_plan: planner_out
    conflicts_before, \* generate_plan: conflicts_before
    next_conflict,    \* position of the resolve loop in conflicts_before
    conflicts_after,  \* generate_plan: conflicts_after
    normalized,       \* history: weekly_plan as normalize_plan returned it
    shifted,          \* history: positions of the items a shift call changed
    result,           \* the dict generate_plan returns
    stdout,           \* the objects printed so far
    arg,              \* direct call of one function: its arguments
    ret               \* direct call of one function: its result

vars == <<pc, profile, busy_intervals, planner_out, conflicts_before,
          next_conflict, conflicts_after, normalized, shifted, result, stdout,
          arg, ret>>

None == [k |-> "null"]

(* ------------------------------------------------------------------ *)
(* Inputs                                                              *)
(* ------------------------------------------------------------------ *)
S_0900 == <<"0","9",":","0","0">>
S_0930 == <<"0","9",":","3","0">>
S_2500 == <<"2","5",":","0","0">>
S_monday == <<"m","o","n","d","a","y">>
S_Someday == <<"S","o","m","e","d","a","y">>
S_task == <<"r","u","n">>

Item(day, start_time, duration_minutes) ==
    [task_name |-> JStr(S_task), day |-> day, start_time |-> start_time,
     duration_minutes |-> duration_minutes]

\* plan items the generated text may carry
PlanItemPool ==
    { Item(JStr(D_Mon), JStr(S_0930), JNum(60)),
      Item(JStr(S_monday), JStr(W_morning), JAbsent),
      Item(JStr(D_Mon), JStr(S_0900), JNum(120)),
      Item(JStr(S_Someday), JStr(S_0900), JNum(60)),
      Item(JNull, JStr(S_0900), JNum(60)),
      Item(JStr(D_Mon), JStr(S_2500), JNum(60)),
      Item(JStr(D_Mon), JAbsent, JNum(60)) }

Iso(t, tz) == [ok |-> TRUE, t |-> t, tz |-> tz]
BadIso == [ok |-> FALSE, t |-> 0, tz |-> ""]
Busy(a, b) == [slash |-> TRUE, a |-> a, b |-> b]
NoSlash == [slash |-> FALSE, a |-> BadIso, b |-> BadIso]

\* Mon 08:30/09:30; Mon 10:00Z/11:00Z; Mon 00:00/Tue 00:00; a str without "/"
BusyPool ==
    << Busy(Iso(510, ""), Iso(570, "")),
       Busy(Iso(600, "Z"), Iso(660, "Z")),
       Busy(Iso(0, ""), Iso(1440, "")),
       NoSlash >>

SeqsUpTo(S, n) == UNION {[1..m -> S] : m \in 0..n}

\* the lists of at most n elements of the sequence pool, in pool order
SubLists(pool, n) ==
    LET nth(S, i) == CHOOSE x \in S : Cardinality({y \in S : y < x}) = i - 1
    IN  { [i \in 1..Cardinality(S) |-> pool[nth(S, i)]] :
            S \in {T \in SUBSET (1..Len(pool)) : Cardinality(T) <= n} }

\* what json.loads(sys.stdin.read()) gives: a ValueError, a value that is not
\* a dict, or the request object
Requests ==
    { [kind |-> "invalid", profile |-> None, busy_intervals |-> None],
      [kind |-> "nondict", profile |-> None, busy_intervals |-> None] }
    \cup
    { [kind |-> "dict", profile |-> p, busy_intervals |-> b] :
        p \in { None,
                [k |-> "dict", chronotype |-> JStr(W_morning)],
                [k |-> "dict", chronotype |-> JStr(W_evening)],
                [k |-> "dict", chronotype |-> JAbsent] },
        b \in {None} \cup {[k |-> "list", v |-> q] : q \in SubLists(BusyPool, MaxBusy)} }

\* what repair_and_validate_json recovers from the generated text: nothing,
\* a JSON value that is no object, or an object whose weekly_plan is absent,
\* null or a list of items
PlannerOuts ==
    { [kind |-> "none", weekly_plan |-> JAbsent],
      [kind |-> "nondict", weekly_plan |-> JAbsent],
      [kind |-> "dict", weekly_plan |-> JAbsent],
      [kind |-> "dict", weekly_plan |-> JNull] }
    \cup
    { [kind |-> "dict", weekly_plan |-> [k |-> "list", v |-> q]] :
        q \in SeqsUpTo(PlanItemPool, MaxItems) }

(* ------------------------------------------------------------------ *)
(* Response envelopes                                                  *)
(* ------------------------------------------------------------------ *)
NoResult == [success |-> FALSE, keys |-> {}, meta |-> {}, status |-> "",
             conflicts_before |-> 0, conflicts_after |-> 0]

\* generate_plan: the return of the try block
SuccessEnvelope(cb, ca) ==
    [success |-> TRUE, keys |-> {"success", "output", "metadata"},
     meta |-> {"model_used", "raw_text", "conflicts_before", "conflicts_after", "status"},
     status |-> "ok", conflicts_before |-> cb, conflicts_after |-> ca]

\* generate_plan: planner_out is None
InvalidJsonEnvelope ==
    [success |-> FALSE, keys |-> {"success", "error", "raw_output", "metadata"},
     meta |-> {"model_used", "raw_text", "status"},
     status |-> "invalid_json", conflicts_before |-> 0, conflicts_after |-> 0]

\* generate_plan: except Exception
ErrorEnvelope ==
    [success |-> FALSE, keys |-> {"success", "error", "error_type", "metadata"},
     meta |-> {"model_used", "status", "error"},
     status |-> "error", conflicts_before |-> 0, conflicts_after |-> 0]

\* __main__: except Exception
MainErrorEnvelope ==
    [success |-> FALSE, keys |-> {"success", "error", "error_type"},
     meta |-> {}, status |-> "", conflicts_before |-> 0, conflicts_after |-> 0]

\* profile.get("chronotype", "neutral"); the functions compare the value
\* with "morning" and "evening" only
Chronotype(prof) ==
    LET c == GetOr(prof.chronotype, JStr(W_neutral))
    IN  IF c = JStr(W_morning) THEN "morning"
        ELSE IF c = JStr(W_evening) THEN "evening"
        ELSE "neutral"

Idle == [k |-> "idle"]

PipelineIdle ==
    /\ profile = None
    /\ busy_intervals = <<>>
    /\ planner_out = [kind |-> "none", weekly_plan |-> JAbsent]
    /\ conflicts_before = <<>>
    /\ next_conflict = 0
    /\ conflicts_after = <<>>
    /\ normalized = <<>>
    /\ shifted = {}
    /\ result = NoResult
    /\ stdout = <<>>

(* ------------------------------------------------------------------ *)
(* One run of the process: __main__ and generate_plan                  *)
(* ------------------------------------------------------------------ *)
Init ==
    /\ pc = "start"
    /\ PipelineIdle
    /\ arg = Idle
    /\ ret = Idle

\* generate_plan returns r to __main__
Return(r) ==
    /\ result' = r
    /\ pc' = "emit"

\* __main__: json.loads(sys.stdin.read()), the .get calls, and the defaults
\* generate_plan gives to profile and busy_intervals
ReadRequest ==
    /\ pc = "start"
    /\ \E req \in Requests :
         IF req.kind # "dict"
         THEN /\ stdout' = Append(stdout, MainErrorEnvelope)
              /\ pc' = "done"
              /\ UNCHANGED <<profile, busy_intervals>>
         ELSE /\ profile' = IF req.profile = None
                            THEN [k |-> "dict", chronotype |-> JStr(W_neutral)]
                            ELSE req.profile
              /\ busy_intervals' = IF req.busy_intervals = None
                                   THEN <<>>
                                   ELSE req.busy_intervals.v
              /\ pc' = "generate"
              /\ UNCHANGED stdout
    /\ UNCHANGED <<planner_out, conflicts_before, next_conflict, conflicts_after,
                   normalized, shifted, result, arg, ret>>

\* HFWrapper(model_name) and hf_model.generate(prompt): either raises, or
\* the text comes back
Generate ==
    /\ pc = "generate"
    /\ \E outcome \in {"init_raises", "generate_raises", "text"} :
         IF outcome = "text"
         THEN pc' = "recover" /\ UNCHANGED result
         ELSE Return(ErrorEnvelope)
    /\ UNCHANGED <<profile, busy_intervals, planner_out, conflicts_before,
                   next_conflict, conflicts_after, normalized, shifted, stdout,
                   arg, ret>>

\* planner_out = repair_and_validate_json(raw_out) and the None test
Recover ==
    /\ pc = "recover"
    /\ \E po \in PlannerOuts :
         /\ planner_out' = po
         /\ IF po.kind = "none"
            THEN Return(InvalidJsonEnvelope)
            ELSE pc' = "normalize" /\ UNCHANGED result
    /\ UNCHANGED <<profile, busy_intervals, conflicts_before, next_conflict,
                   conflicts_after, normalized, shifted, stdout, arg, ret>>

\* if "weekly_plan" in planner_out: planner_out["weekly_plan"] = normalize_plan(...)
Normalize ==
    /\ pc = "normalize"
    /\ IF planner_out.kind # "dict"
       THEN Return(ErrorEnvelope) /\ UNCHANGED <<planner_out, normalized>>
       ELSE IF planner_out.weekly_plan.k = "absent"
       THEN pc' = "detect" /\ UNCHANGED <<planner_out, normalized, result>>
       ELSE IF planner_out.weekly_plan.k # "list"
       THEN Return(ErrorEnvelope) /\ UNCHANGED <<planner_out, normalized>>
       ELSE LET r == normalize_plan(planner_out.weekly_plan.v, Chronotype(profile))
            IN  IF r.exc
                THEN Return(ErrorEnvelope) /\ UNCHANGED <<planner_out, normalized>>
                ELSE /\ planner_out' =
                          [planner_out EXCEPT !.weekly_plan = [k |-> "list", v |-> r.items]]
                     /\ normalized' = r.items
                     /\ pc' = "detect"
                     /\ UNCHANGED result
    /\ UNCHANGED <<profile, busy_intervals, conflicts_before, next_conflict,
                   conflicts_after, shifted, stdout, arg, ret>>

\* conflicts_before = plan_conflicts(planner_out["weekly_plan"], ...)
DetectBefore ==
    /\ pc = "detect"
    /\ IF planner_out.weekly_plan.k = "absent"
       THEN Return(ErrorEnvelope) /\ UNCHANGED <<conflicts_before, next_conflict>>
       ELSE LET r == plan_conflicts(planner_out.weekly_plan.v, busy_intervals)
            IN  IF r.exc
                THEN Return(ErrorEnvelope) /\ UNCHANGED <<conflicts_before, next_conflict>>
                ELSE /\ conflicts_before' = r.out
                     /\ next_conflict' = 1
                     /\ pc' = "resolve"
                     /\ UNCHANGED result
    /\ UNCHANGED <<profile, busy_intervals, planner_out, conflicts_after,
                   normalized, shifted, stdout, arg, ret>>

\* one iteration of: for (plan_item, busy_interval) in conflicts_before
ResolveStep ==
    /\ pc = "resolve"
    /\ next_conflict <= Len(conflicts_before)
    /\ LET i == conflicts_before[next_conflict].p
           plan_item == planner_out.weekly_plan.v[i]
           day_idx == DayIndex(GetOr(plan_item.day, JStr(D_Mon)).s)
           r == resolve_conflict_by_shifting(plan_item, busy_intervals, day_idx,
                                             Chronotype(profile))
       IN  /\ planner_out' = [planner_out EXCEPT !.weekly_plan.v[i] = r.item]
           /\ shifted' = IF r.ok THEN shifted \cup {i} ELSE shifted
    /\ next_conflict' = next_conflict + 1
    /\ UNCHANGED <<pc, profile, busy_intervals, conflicts_before,
                   conflicts_after, normalized, result, stdout, arg, ret>>

\* conflicts_after = plan_conflicts(...), the metadata and the return
DetectAfter ==
    /\ pc = "resolve"
    /\ next_conflict > Len(conflicts_before)
    /\ LET r == plan_conflicts(planner_out.weekly_plan.v, busy_intervals)
       IN  IF r.exc
           THEN Return(ErrorEnvelope) /\ UNCHANGED conflicts_after
           ELSE /\ conflicts_after' = r.out
                /\ Return(SuccessEnvelope(Len(conflicts_before), Len(r.out)))
    /\ UNCHANGED <<profile, busy_intervals, planner_out, conflicts_before,
                   next_conflict, normalized, shifted, stdout, arg, ret>>

\* __main__: print(json.dumps(result))
Emit ==
    /\ pc = "emit"
    /\ stdout' = Append(stdout, result)
    /\ pc' = "done"
    /\ UNCHANGED <<profile, busy_intervals, planner_out, conflicts_before,
                   next_conflict, conflicts_after, normalized, shifted, result,
                   arg, ret>>

Next ==
    \/ ReadRequest
    \/ Generate
    \/ Recover
    \/ Normalize
    \/ DetectBefore
    \/ ResolveStep
    \/ DetectAfter
    \/ Emit

Spec == Init /\ [][Next]_vars

(* ------------------------------------------------------------------ *)
(* Properties of one run                                               *)
(* ------------------------------------------------------------------ *)
IsSuccessShape(e) ==
    /\ e.success
    /\ {"output", "metadata"} \subseteq e.keys
    /\ {"conflicts_before", "conflicts_after", "status"} \subseteq e.meta
    /\ e.status = "ok"

IsParseFailureShape(e) ==
    /\ ~e.success
    /\ {"raw_output", "metadata"} \subseteq e.keys
    /\ e.status = "invalid_json"

IsRuntimeFailureShape(e) ==
    /\ ~e.success
    /\ {"error", "error_type", "metadata"} \subseteq e.keys
    /\ e.status = "error"

\* the entries of a conflict list that name item i
EntriesOf(conflicts, i) == {n \in 1..Len(conflicts) : conflicts[n].p = i}

\* C1: every finished run has printed exactly one envelope, and the envelope
\* is a success, a parse failure or a runtime failure with its metadata.
C1_OneEnvelopeOfThreeShapes ==
    pc = "done" =>
        /\ Len(stdout) = 1
        /\ \/ IsSuccessShape(stdout[1])
           \/ IsParseFailureShape(stdout[1])
           \/ IsRuntimeFailureShape(stdout[1])

\* C2: a recovered object without the weekly_plan key ends in the success
\* envelope with conflicts_before = 0 and conflicts_after = 0.
C2_MissingWeeklyPlanSucceeds ==
    (pc = "done" /\ planner_out.kind = "dict" /\ planner_out.weekly_plan.k = "absent") =>
        /\ Len(stdout) = 1
        /\ IsSuccessShape(stdout[1])
        /\ stdout[1].conflicts_before = 0
        /\ stdout[1].conflicts_after = 0

\* C7: a recovered plan whose items have an unparsable start_time or an
\* unrecognized day (a string, null or absent) still ends in the success
\* envelope.
C7_MalformedItemsNeverAbort ==
    (pc = "done" /\ planner_out.kind = "dict" /\ planner_out.weekly_plan.k = "list") =>
        /\ Len(stdout) = 1
        /\ IsSuccessShape(stdout[1])

\* C10: in a run that reaches the second detection, conflicts_after is at
\* most conflicts_before, an item without a conflict before resolution is as
\* normalize_plan left it, and an item some shift call changed has no entry
\* in conflicts_after.
C10_ResolveNeverAddsConflicts ==
    (pc \in {"emit", "done"} /\ result.success) =>
        /\ Len(conflicts_after) <= Len(conflicts_before)
        /\ result.conflicts_after <= result.conflicts_before
        /\ \A i \in 1..Len(normalized) :
             /\ EntriesOf(conflicts_before, i) = {} =>
                    planner_out.weekly_plan.v[i] = normalized[i]
             /\ i \in shifted => EntriesOf(conflicts_after, i) = {}

\* C10 witness: an item with two entries in conflicts_before was handed to
\* the shift twice, was changed, and the run ended with fewer conflicts.
C10_Witness ==
    /\ pc = "done"
    /\ result.success
    /\ \E i \in shifted : Cardinality(EntriesOf(conflicts_before, i)) >= 2
    /\ Len(conflicts_after) < Len(conflicts_before)

(* ------------------------------------------------------------------ *)
(* Direct calls of one function                                        *)
(* ------------------------------------------------------------------ *)
S_0030 == <<"0","0",":","3","0">>
S_0730 == <<"0","7",":","3","0">>
S_2245 == <<"2","2",":","4","5">>
S_9_00 == <<"9",":","0","0">>
S_60 == <<"6","0">>
S_TUESDAY == <<" ","T","U","E","S","D","A","Y"," ">>
S_sat == <<"s","a","t">>
S_late_morning_run == <<"L","a","t","e"," ","M","o","r","n","i","n","g"," ","r","u","n">>
S_weekend_afternoon == <<"w","e","e","k","e","n","d"," ","a","f","t","e","r","n","o","o","n">>

Chronotypes == {"morning", "evening", "neutral"}

\* a half that parses followed by one that does not
BadHalf == Busy(Iso(0, ""), BadIso)

\* Returned leaves everything but ret and pc as it is
Returned(r) ==
    /\ ret' = r
    /\ pc' = "returned"
    /\ UNCHANGED <<profile, busy_intervals, planner_out, conflicts_before,
                   next_conflict, conflicts_after, normalized, shifted, result,
                   stdout, arg>>

\* ---- resolve_conflict_by_shifting(item, busy_intervals, ref_date, chronotype)
ShiftItemPool ==
    { Item(JStr(D_Mon), st, JNum(d)) :
        st \in { JStr(S_0900), JStr(S_0930), JStr(S_0030), JStr(S_2500),
                 JStr(S_2245), JStr(W_evening), JAbsent, JNull },
        d \in {60, 120} }
    \cup { Item(JStr(D_Mon), JStr(S_0900), JStr(S_60)) }

\* Mon 08:30/09:30; Mon 10:00Z/11:00Z; Mon 00:00/Tue 00:00;
\* Tue 09:00/12:00; a str without "/"; a str whose second half does not parse
ShiftBusyPool ==
    { Busy(Iso(510, ""), Iso(570, "")),
      Busy(Iso(600, "Z"), Iso(660, "Z")),
      Busy(Iso(0, ""), Iso(1440, "")),
      Busy(Iso(1980, ""), Iso(2160, "")),
      NoSlash,
      BadHalf }

InitShift ==
    /\ pc = "call"
    /\ PipelineIdle
    /\ ret = Idle
    /\ arg \in { [item |-> it, busy_intervals |-> b, ref_date |-> d, chronotype |-> c] :
                   it \in ShiftItemPool, b \in SeqsUpTo(ShiftBusyPool, MaxBusy),
                   d \in {0, 1}, c \in Chronotypes }

CallShift ==
    /\ pc = "call"
    /\ Returned(resolve_conflict_by_shifting(arg.item, arg.busy_intervals,
                                             arg.ref_date, arg.chronotype))

SpecShift == InitShift /\ [][CallShift]_vars

\* ---- plan_conflicts(plan_items, busy_intervals, ref_week_start)
ConflictItemPool ==
    { Item(JStr(D_Mon), JStr(S_0900), JNum(120)),
      Item(JStr(D_Mon), JStr(S_0730), JNum(60)),
      Item(JStr(D_Mon), JStr(S_0930), JNum(30)),
      Item(JStr(S_Someday), JStr(S_0900), JNum(60)),
      Item(JStr(D_Mon), JStr(S_2500), JNum(60)),
      Item(JStr(D_Mon), JAbsent, JAbsent) }

ConflictBusyPool ==
    { Busy(Iso(510, ""), Iso(570, "")),
      Busy(Iso(600, "Z"), Iso(660, "Z")),
      NoSlash,
      BadHalf }

InitConflicts ==
    /\ pc = "call"
    /\ PipelineIdle
    /\ ret = Idle
    /\ arg \in { [plan_items |-> q, busy_intervals |-> b] :
                   q \in SeqsUpTo(ConflictItemPool, MaxItems),
                   b \in SeqsUpTo(ConflictBusyPool, MaxBusy) }

CallConflicts ==
    /\ pc = "call"
    /\ Returned(plan_conflicts(arg.plan_items, arg.busy_intervals))

SpecConflicts == InitConflicts /\ [][CallConflicts]_vars

\* ---- normalize_plan(plan_items, chronotype)
NormalizeItemPool ==
    { Item(JStr(D_Mon), JStr(S_0900), JNum(60)),
      Item(JStr(S_monday), JStr(W_evening), JAbsent),
      Item(JStr(S_TUESDAY), JStr(S_late_morning_run), JNum(30)),
      Item(JStr(S_Someday), JStr(S_9_00), JNum(60)),
      Item(JAbsent, JAbsent, JNull),
      Item(JNull, JStr(S_0900), JNum(60)),
      Item(JStr(D_Fri), JStr(W_after_work), JNum(60)),
      Item(JStr(S_sat), JStr(S_weekend_afternoon), JNum(60)) }

InitNormalize ==
    /\ pc = "call"
    /\ PipelineIdle
    /\ ret = Idle
    /\ arg \in { [plan_items |-> q, chronotype |-> c] :
                   q \in SeqsUpTo(NormalizeItemPool, MaxItems), c \in Chronotypes }

CallNormalize ==
    /\ pc = "call"
    /\ Returned(normalize_plan(arg.plan_items, arg.chronotype))

SpecNormalize == InitNormalize /\ [][CallNormalize]_vars

\* ---- extract_largest_json(text)
TextTokens ==
    { <<"{">>, <<"}">>, <<"x">>, <<" ">>, F_fence, F_fence_json, F_xml_open,
      F_xml_close }

RECURSIVE Concat(_)
Concat(tokens) ==
    IF Len(tokens) = 0 THEN <<>> ELSE Head(tokens) \o Concat(Tail(tokens))

InitExtract ==
    /\ pc = "call"
    /\ PipelineIdle
    /\ ret = Idle
    /\ arg \in { [text |-> Concat(q)] : q \in SeqsUpTo(TextTokens, MaxTokens) }

CallExtract ==
    /\ pc = "call"
    /\ Returned(extract_largest_json(arg.text))

SpecExtract == InitExtract /\ [][CallExtract]_vars

(* ------------------------------------------------------------------ *)
(* Properties of resolve_conflict_by_shifting                          *)
(* ------------------------------------------------------------------ *)
\* the duration the call works with
ArgDuration == IF arg.item.duration_minutes.k = "absent" THEN 60
               ELSE arg.item.duration_minutes.n

\* [ref_date at hour:00, +duration) overlaps no busy interval that parses
FreeAt(hour) ==
    LET a == arg.ref_date * 1440 + hour * 60
        b == a + ArgDuration
    IN  \A j \in 1..Len(arg.busy_intervals) :
          LET bs == arg.busy_intervals[j]
          IN  (bs.slash /\ bs.a.ok /\ bs.b.ok) => (b <= bs.a.t \/ a >= bs.b.t)

\* C3: when the call returns true, start_time is HH:00 with HH in 6..22 and
\* the interval starting there overlaps none of the busy intervals that parse.
C3_ShiftLandsInRangeAndFree ==
    (pc = "returned" /\ ret.ok) =>
        LET st == ret.item.start_time
        IN  /\ st.k = "str"
            /\ Len(st.s) = 5
            /\ IsDigit(st.s[1]) /\ IsDigit(st.s[2])
            /\ st.s[3] = ":" /\ st.s[4] = "0" /\ st.s[5] = "0"
            /\ LET hh == 10 * DigitVal(st.s[1]) + DigitVal(st.s[2])
               IN  hh \in 6..22 /\ FreeAt(hh)

\* C3 witness: a call with a busy interval that parses returned true with an
\* hour other than the one the item had.
C3_Witness ==
    /\ pc = "returned"
    /\ ret.ok
    /\ arg.item.start_time = JStr(S_2245)
    /\ \E j \in 1..Len(arg.busy_intervals) : BusyParses(arg.busy_intervals[j])
    /\ ret.item.start_time # arg.item.start_time

\* C4: when the call does not return true, the item is as it was before the
\* call, start_time and its minutes included.
C4_FailureLeavesItemUnchanged ==
    (pc = "returned" /\ ~ret.ok) => ret.item = arg.item

\* C4 witness: a call on an item starting at 09:30 returned false.
C4_Witness ==
    /\ pc = "returned"
    /\ ~ret.ok
    /\ ~ret.exc
    /\ arg.item.start_time = JStr(S_0930)
    /\ ret.item.start_time = JStr(S_0930)

ClaimedDeltas(chronotype) ==
    IF chronotype = "morning" THEN <<-1, -2, -3, 1, 2, 3, 4, -4, 5, -5>>
    ELSE IF chronotype = "evening" THEN <<1, 2, 3, -1, -2, -3, 4, -4, 5, -5>>
    ELSE <<1, -1, 2, -2, 3, -3, 4, -4, 5, -5>>

\* the positions of the claimed sequence whose hour is in 6..22 and free
Qualifying ==
    LET h == CurrentHour(arg.item)
        ds == ClaimedDeltas(arg.chronotype)
    IN  {n \in 1..10 : (h + ds[n]) \in 6..22 /\ FreeAt(h + ds[n])}

\* C9: the call returns true exactly when some offset of the chronotype's
\* sequence qualifies, and then start_time is hour h + d at minute 00 for
\* the earliest qualifying d.
C9_FirstFeasibleOffsetWins ==
    (pc = "returned" /\ ~ret.exc) =>
        /\ ret.ok <=> Qualifying # {}
        /\ ret.ok =>
             LET n == CHOOSE m \in Qualifying : \A q \in Qualifying : m <= q
                 hour == CurrentHour(arg.item) + ClaimedDeltas(arg.chronotype)[n]
             IN  ret.item.start_time = JStr(Fmt02(hour) \o <<":", "0", "0">>)

\* C9 witness: a morning call whose first offset is busy took a later one.
C9_Witness ==
    /\ pc = "returned"
    /\ ret.ok
    /\ arg.chronotype = "morning"
    /\ 1 \notin Qualifying
    /\ Cardinality(Qualifying) >= 2

(* ------------------------------------------------------------------ *)
(* Properties of plan_conflicts                                        *)
(* ------------------------------------------------------------------ *)
\* the minute of the week item p starts at
SpanStart(p, st) == DayIndex(p.day.s) * 1440 + Strptime(st.s)

\* item i and busy interval j are to be reported, st(i) being the start_time
\* the test reads
Reported(i, j, st) ==
    LET p == arg.plan_items[i]
        bs == arg.busy_intervals[j]
    IN  /\ p.day.k = "str" /\ \E n \in 1..7 : WEEK_DAYS[n] = p.day.s
        /\ st.k = "str" /\ Strptime(st.s) # -1
        /\ bs.slash /\ bs.a.ok /\ bs.b.ok
        /\ LET a == SpanStart(p, st)
               b == a + (IF p.duration_minutes.k = "absent" THEN 60
                         ELSE p.duration_minutes.n)
           IN  /\ ~(b <= bs.a.t \/ a >= bs.b.t)
               /\ ~(bs.b.t <= a \/ bs.a.t >= b)

\* the list of entries for the set P of <<i, j>> pairs, item then interval
ListsInOrder(out, P) ==
    /\ Len(out) = Cardinality(P)
    /\ \A q \in P :
         LET rank == 1 + Cardinality({r \in P : r[1] < q[1]
                                        \/ (r[1] = q[1] /\ r[2] < q[2])})
         IN  out[rank] = [p |-> q[1],
                          start |-> arg.busy_intervals[q[2]].a.t,
                          end |-> arg.busy_intervals[q[2]].b.t]

AllPairs == (1..Len(arg.plan_items)) \X (1..Len(arg.busy_intervals))

\* C5 as stated: the pairs reported are those whose item has a start_time
\* that parses.
C5_ReportsExactlyParsedOverlaps ==
    (pc = "returned" /\ ~ret.exc) =>
        ListsInOrder(ret.out,
            {q \in AllPairs : Reported(q[1], q[2], arg.plan_items[q[1]].start_time)})

\* C5 amended: the pairs reported are those whose item has a canonical day
\* and a start_time, read as "09:00" when the item has no start_time key,
\* that parses, whose busy interval parses, and whose spans [a,b), [c,d)
\* satisfy not (b <= c or a >= d), whichever of the two is the item; the
\* entries are in item-then-interval order, one per overlapping interval.
C5_ReportsOverlapsWithDefaultStart ==
    (pc = "returned" /\ ~ret.exc) =>
        ListsInOrder(ret.out,
            {q \in AllPairs :
                Reported(q[1], q[2],
                         IF arg.plan_items[q[1]].start_time.k = "absent"
                         THEN JStr(S_0900)
                         ELSE arg.plan_items[q[1]].start_time)})

\* C5 witness: one item overlaps two busy intervals and another only touches
\* one at an endpoint; two entries are listed, both for the first item.
C5_Witness ==
    /\ pc = "returned"
    /\ ~ret.exc
    /\ Len(arg.plan_items) = 2
    /\ arg.plan_items[1] = Item(JStr(D_Mon), JStr(S_0900), JNum(120))
    /\ arg.plan_items[2] = Item(JStr(D_Mon), JStr(S_0730), JNum(60))
    /\ Len(ret.out) = 2
    /\ ret.out[1].p = 1 /\ ret.out[2].p = 1
    /\ ret.out[1].start # ret.out[2].start

(* ------------------------------------------------------------------ *)
(* Properties of normalize_plan                                        *)
(* ------------------------------------------------------------------ *)
CanonicalDay(v) == v.k = "str" /\ \E n \in 1..7 : WEEK_DAYS[n] = v.s

\* ^\d{2}:\d{2}$
IsHHMM(v) ==
    /\ v.k = "str"
    /\ Len(v.s) = 5
    /\ IsDigit(v.s[1]) /\ IsDigit(v.s[2]) /\ v.s[3] = ":"
    /\ IsDigit(v.s[4]) /\ IsDigit(v.s[5])

\* the day names the conversion knows, after trimming and lower-casing
KnownDayName(s) ==
    \E n \in 1..7 : Strip(Lower(s)) = Lower(WEEK_DAYS[n]) \/ Strip(Lower(s)) = FullDayNames[n]

\* C6 as stated: every returned item that came with a day string and a
\* start_time string has a canonical day and an HH:MM start_time.
C6_NormalizedItemsAreCanonical ==
    (pc = "returned" /\ ~ret.exc) =>
        \A i \in 1..Len(ret.items) :
            (arg.plan_items[i].day.k = "str" /\ arg.plan_items[i].start_time.k = "str") =>
                CanonicalDay(ret.items[i].day) /\ IsHHMM(ret.items[i].start_time)

\* C6 amended: in the returned list an item whose day is a known day name
\* has a canonical day and any other day is returned as it came; an item
\* whose start_time holds a letter has a start_time HH:00 and any other
\* start_time is returned as it came.
C6_KnownNamesAndVagueTimesAreCanonical ==
    (pc = "returned" /\ ~ret.exc) =>
        /\ Len(ret.items) = Len(arg.plan_items)
        /\ \A i \in 1..Len(ret.items) :
             LET in == arg.plan_items[i]
                 out == ret.items[i]
             IN  /\ IF in.day.k = "str" /\ KnownDayName(in.day.s)
                    THEN CanonicalDay(out.day)
                    ELSE out.day = in.day
                 /\ IF in.start_time.k = "str"
                       /\ \E n \in 1..Len(in.start_time.s) : IsAlpha(in.start_time.s[n])
                    THEN IsHHMM(out.start_time)
                         /\ out.start_time.s[4] = "0" /\ out.start_time.s[5] = "0"
                    ELSE out.start_time = in.start_time

\* C6 witness: a lower-case three-letter day with a vague start_time came
\* back canonical next to an item whose unknown day came back unchanged.
C6_Witness ==
    /\ pc = "returned"
    /\ ~ret.exc
    /\ Len(arg.plan_items) = 2
    /\ arg.plan_items[1] = Item(JStr(S_sat), JStr(S_weekend_afternoon), JNum(60))
    /\ arg.plan_items[2] = Item(JStr(S_Someday), JStr(S_9_00), JNum(60))
    /\ ret.items[1].day = JStr(D_Sat)
    /\ IsHHMM(ret.items[1].start_time)
    /\ ret.items[2].day = JStr(S_Someday)

(* ------------------------------------------------------------------ *)
(* Properties of extract_largest_json                                  *)
(* ------------------------------------------------------------------ *)
\* the number of positions lo..hi of s that hold c
Count(s, lo, hi, c) == Cardinality({n \in lo..hi : s[n] = c})

\* the braces of s are balanced: no prefix closes more than it opens, and
\* the whole text closes all it opens
Balanced(s) ==
    /\ \A n \in 1..Len(s) : Count(s, 1, n, "{") >= Count(s, 1, n, "}")
    /\ Count(s, 1, Len(s), "{") = Count(s, 1, Len(s), "}")

\* s[j] is the depth-matched "}" of the "{" at s[i]
Matched(s, i, j) ==
    /\ s[i] = "{" /\ s[j] = "}" /\ i < j
    /\ Count(s, i, j, "{") = Count(s, i, j, "}")
    /\ \A n \in i..(j - 1) : Count(s, i, n, "{") > Count(s, i, n, "}")

Candidates(s) == {q \in (1..Len(s)) \X (1..Len(s)) : Matched(s, q[1], q[2])}

====
